---- MODULE Spec2Model ----
(***************************************************************************)
(* EnforcerDelegate (rbac-backend/src/service/enforcer-delegate.ts).       *)
(*                                                                         *)
(* The delegate orchestrates three collaborators: the casbin adapter       *)
(* (policy rows "p" and grouping rows "g"), the role manager (role graph   *)
(* links) and the role metadata storage, the last one through a knex       *)
(* transaction.  The body of every delegate method is the operator of the  *)
(* same name, which threads a context record through the collaborator      *)
(* calls in source order.  The methods are async functions: an invocation  *)
(* gives the event loop back at every await, so the invocations of several *)
(* callers interleave call by call.  A step of an invocation is the        *)
(* collaborator call it awaits together with the synchronous code after    *)
(* it.  Any collaborator call may fail (input `fail`), which raises an     *)
(* error that propagates as a JavaScript exception does.                   *)
(***************************************************************************)
EXTENDS Naturals, Sequences, FiniteSets

VARIABLES
  policies,   \* adapter: the stored rules of ptype "p"
  groupings,  \* adapter: the stored rules of ptype "g"
  links,      \* role manager: set of <<member, role>> links
  metadata,   \* role metadata storage (committed): ref -> record or NoMeta
  clears,     \* role manager: whether its clear() drops the links it holds
  tasks       \* per caller: the invocation under way or its outcome

vars == <<policies, groupings, links, metadata, clears, tasks>>

----------------------------------------------------------------------------
(* Bounds *)

\* Longest batch handed to a *Policies method.
MaxBatch == 2

\* The longest list of roles handed to enforce.
MaxRoles == 2

\* The largest start index and the most values handed to a filtered read.
MaxFieldIndex == 4
MaxValues == 2

----------------------------------------------------------------------------
(* Identifiers *)

ADMIN_ROLE_NAME == "role:default/rbac_admin"
RoleA == "role:default/a"
Alice == "user:default/alice"
Bob == "user:default/bob"
Team == "group:default/team"
Userpool == "userpool:default/staff"
Undefined == "undefined"

\* The characters of the strings the delegate inspects.
Chars(s) ==
  CASE s = ADMIN_ROLE_NAME ->
         <<"r", "o", "l", "e", ":", "d", "e", "f", "a", "u", "l", "t", "/", "r", "b", "a", "c", "_", "a", "d", "m", "i", "n">>
    [] s = RoleA ->
         <<"r", "o", "l", "e", ":", "d", "e", "f", "a", "u", "l", "t", "/", "a">>
    [] s = Alice ->
         <<"u", "s", "e", "r", ":", "d", "e", "f", "a", "u", "l", "t", "/", "a", "l", "i", "c", "e">>
    [] s = Bob ->
         <<"u", "s", "e", "r", ":", "d", "e", "f", "a", "u", "l", "t", "/", "b", "o", "b">>
    [] s = Team ->
         <<"g", "r", "o", "u", "p", ":", "d", "e", "f", "a", "u", "l", "t", "/", "t", "e", "a", "m">>
    [] s = Userpool ->
         <<"u", "s", "e", "r", "p", "o", "o", "l", ":", "d", "e", "f", "a", "u", "l", "t", "/", "s", "t", "a", "f", "f">>
    [] s = Undefined ->
         <<"u", "n", "d", "e", "f", "i", "n", "e", "d">>
    [] s = "role:" -> <<"r", "o", "l", "e", ":">>
    [] s = "user" -> <<"u", "s", "e", "r">>
    [] s = "group" -> <<"g", "r", "o", "u", "p">>

\* String.prototype.startsWith: the characters of `prefix` are the first
\* characters of `ref`.
startsWith(ref, prefix) ==
  LET r == Chars(ref)
      q == Chars(prefix)
  IN Len(q) <= Len(r) /\ SubSeq(r, 1, Len(q)) = q

\* The kind of an entity reference <kind>:<namespace>/<name>: the characters
\* before its first ':'.
Kind(ref) ==
  LET r == Chars(ref)
      colons == {i \in DOMAIN r : r[i] = ":"}
  IN IF colons = {} THEN r
     ELSE SubSeq(r, 1, (CHOOSE i \in colons : \A j \in colons : i <= j) - 1)

\* Policy rules [subject, resourceType, action, effect].
PolicyRules ==
  << <<Alice, "catalog-entity", "read", "allow">>,
     <<RoleA, "catalog-entity", "read", "allow">>,
     <<RoleA, "catalog-entity", "delete", "allow">> >>

PolicyUniverse == {PolicyRules[i] : i \in DOMAIN PolicyRules}

\* Grouping rules [member, role].
GroupRules ==
  << <<Alice, RoleA>>, <<Bob, RoleA>>, <<Alice, ADMIN_ROLE_NAME>> >>

GroupUniverse == {GroupRules[i] : i \in DOMAIN GroupRules}

\* References a RoleMetadataDao may carry in roleEntityRef.
MetaRefs == {RoleA, ADMIN_ROLE_NAME}

Authors == {"user:default/author"}

NoMeta == [modifiedBy |-> "none"]

\* RoleMetadataDao values handed to the delegate.
RoleMetadataDao == [roleEntityRef : MetaRefs, modifiedBy : Authors]

----------------------------------------------------------------------------
(* Events and errors *)

\* The method frame issuing a collaborator call: its name and whether it
\* was handed an external transaction.
Frame(name, externalTrx) == [name |-> name, ext |-> externalTrx]

NoErr == [e |-> "none", a |-> <<>>]
Err(e, a) == [e |-> e, a |-> a]

\* Not an error: the mark of an invocation that has reached its next await
\* and gives the event loop back.  The code after the await runs when the
\* invocation is resumed.
Suspended == [e |-> "await", a |-> <<>>]

Ok(c) == c.err = NoErr
Awaiting(c) == c.err = Suspended

\* What a collaborator call resolved to: the rules of a filtered load, the
\* record of a metadata lookup, the answer of the role manager.
NoResult ==
  [p |-> {}, g |-> {}, md |-> [modifiedBy |-> "none"], link |-> FALSE]

Event(c, e, a, ok) ==
  [e |-> e, a |-> a, ok |-> ok, by |-> c.by.name, ext |-> c.by.ext,
   ret |-> NoResult]

\* The mark of a key a transaction has not written.
Untouched == [modifiedBy |-> "untouched"]

\* The context in which an invocation runs from its entry up to its next
\* await: the collaborators' state as it is now, the events of the awaits
\* that have resolved already (log), and which of the calls issued in this
\* run fails (fail; 0: none).
Enter(name, externalTrx, fail) ==
  [ p |-> policies, g |-> groupings, links |-> links, meta |-> metadata,
    tmeta |-> metadata, written |-> {},
    log |-> <<>>, live |-> 0, awaited |-> FALSE, replayed |-> FALSE,
    yield |-> TRUE, fail |-> fail,
    err |-> NoErr, events |-> <<>>, ret |-> FALSE,
    by |-> Frame(name, externalTrx) ]

\* A context in which no await gives the event loop back: the invocation
\* runs alone from entry to return.
Alone(c) == [c EXCEPT !.yield = FALSE]

\* One collaborator call.  Skipped while an error propagates.  A call that
\* resolved before this resumption is taken from the log: it has had its
\* effect and gives what it gave then.  Otherwise the call is issued now:
\* a call that is awaited (~sync) is the one await of this resumption, and
\* the next one suspends the invocation; the call fails when it is the
\* `fail`-th call issued now, unless it is one of the caller (sure).
Do(c, e, a, sync, sure) ==
  IF ~Ok(c) THEN c
  ELSE IF Len(c.events) < Len(c.log)
    THEN LET ev == c.log[Len(c.events) + 1]
         IN [c EXCEPT !.events = Append(@, ev),
                      !.replayed = TRUE,
                      !.err = IF ev.ok THEN NoErr ELSE Err(ev.e, ev.a)]
  ELSE IF ~sync /\ c.awaited /\ c.yield
    THEN [c EXCEPT !.err = Suspended]
  ELSE LET d == [c EXCEPT !.replayed = FALSE,
                          !.awaited = @ \/ ~sync,
                          !.live = IF sure THEN @ ELSE @ + 1]
       IN IF ~sure /\ d.live = c.fail
            THEN [d EXCEPT !.err = Err(e, a),
                           !.events = Append(@, Event(c, e, a, FALSE))]
            ELSE [d EXCEPT !.events = Append(@, Event(c, e, a, TRUE))]

\* An awaited collaborator call.
Call(c, e, a) == Do(c, e, a, FALSE, FALSE)

\* The call has just been issued and has resolved: it takes effect.
Acts(d) == Ok(d) /\ ~d.replayed

\* The effect F of the call that context d comes from, when the call has
\* just resolved.
Then(d, F(_)) == IF Acts(d) THEN F(d) ELSE d

\* What follows a call that resolved, now or earlier.
WhenOk(d, F(_)) == IF Ok(d) THEN F(d) ELSE d

\* An awaited collaborator call that resolves to the value r.
Read(c, e, a, r) ==
  Then(Call(c, e, a), LAMBDA d : [d EXCEPT !.events[Len(d.events)].ret = r])

\* What the last call resolved to.
Answer(d) == d.events[Len(d.events)].ret

\* Entering and leaving a nested method call.
Push(c, name, externalTrx) == [c EXCEPT !.by = Frame(name, externalTrx)]
Pop(c, caller) == [c EXCEPT !.by = caller.by]

----------------------------------------------------------------------------
(* Collaborators *)

\* knex.transaction(): a new transaction, which sees the committed metadata.
knexTransaction(c) ==
  Then(Call(c, "knex.transaction", <<>>),
       LAMBDA d : [d EXCEPT !.tmeta = d.meta, !.written = {}])

\* trx.commit(): the transaction's metadata writes become the committed ones.
trxCommit(c) ==
  Then(Call(c, "trx.commit", <<>>),
       LAMBDA d : [d EXCEPT !.meta = d.tmeta, !.written = {}])

\* trx.rollback(err), called from a catch block while `err` is pending: the
\* transaction's metadata writes are dropped, and the pending error goes on.
\* When the rollback itself fails, its error replaces the pending one.
trxRollback(c) ==
  WhenOk(Then(Call([c EXCEPT !.err = NoErr], "trx.rollback", <<>>),
              LAMBDA d : [d EXCEPT !.tmeta = d.meta, !.written = {}]),
         LAMBDA d : [d EXCEPT !.err = c.err])

\* A filter object {ptype, v<i>: value, ...}: v maps field indices to values.
Filter(ptype, v) == [ptype |-> ptype, v |-> v]

\* A stored rule matches a filter object when every field the filter names
\* exists in the rule and holds the value.
Match(rule, f) ==
  \A i \in DOMAIN f.v : (i + 1) \in DOMAIN rule /\ rule[i + 1] = f.v[i]

\* adapter.loadFilteredPolicy(model, filters): the rows matching any of the
\* filter objects, loaded into a fresh model (left in c.ret).
loadFilteredPolicy(c, filters) ==
  WhenOk(Read(c, "adapter.loadFilteredPolicy", <<>>,
              [NoResult EXCEPT
                 !.p = {r \in c.p : \E f \in filters :
                                      f.ptype = "p" /\ Match(r, f)},
                 !.g = {r \in c.g : \E f \in filters :
                                      f.ptype = "g" /\ Match(r, f)}]),
         LAMBDA d : [d EXCEPT !.ret = [p |-> Answer(d).p, g |-> Answer(d).g]])

\* adapter.addPolicy(sec, ptype, rule): stores the rule; storing a rule that
\* is stored already changes nothing (the adapter de-duplicates).  The call
\* takes no transaction: the rule is stored at once.
adapterAddPolicy(c, ptype, rule) ==
  Then(Call(c, "adapter.addPolicy", <<ptype>> \o rule),
       LAMBDA d : IF ptype = "p" THEN [d EXCEPT !.p = @ \cup {rule}]
                                 ELSE [d EXCEPT !.g = @ \cup {rule}])

\* adapter.removePolicy(sec, ptype, rule): deletes the rule, at once.
adapterRemovePolicy(c, ptype, rule) ==
  Then(Call(c, "adapter.removePolicy", <<ptype>> \o rule),
       LAMBDA d : IF ptype = "p" THEN [d EXCEPT !.p = @ \ {rule}]
                                 ELSE [d EXCEPT !.g = @ \ {rule}])

\* A catch block that rolls back whichever transaction the method holds,
\* its caller's included.
CatchAlways(c, externalTrx) ==
  IF Ok(c) \/ Awaiting(c) THEN c ELSE trxRollback(c)

\* A try block's catch: roll back an owned transaction, rethrow.
Catch(c, externalTrx) ==
  IF Ok(c) \/ Awaiting(c) \/ externalTrx THEN c ELSE trxRollback(c)

----------------------------------------------------------------------------
(* Policy methods *)

\* hasPolicy(...policy): filtered load of the exact rule, then membership.
hasPolicy(c, policy) ==
  LET d == loadFilteredPolicy(c,
             {Filter("p", [i \in 0..3 |-> policy[i + 1]])})
  IN IF ~Ok(d) THEN d ELSE [d EXCEPT !.ret = policy \in d.ret.p]

\* An addPolicy that writes without looking the rule up first.
addPolicyNoCheck(c, policy, externalTrx) ==
  LET c0 == Push(c, "addPolicy", externalTrx)
      c1 == IF externalTrx THEN c0 ELSE knexTransaction(c0)
      c3 == adapterAddPolicy(c1, "p", policy)
      c4 == IF externalTrx THEN c3 ELSE trxCommit(c3)
  IN Pop(Catch(c4, externalTrx), c)

addPolicy(c, policy, externalTrx) ==
  LET c0 == Push(c, "addPolicy", externalTrx)
      c1 == IF externalTrx THEN c0 ELSE knexTransaction(c0)
      c2 == hasPolicy(c1, policy)
  IN IF ~Ok(c2) \/ c2.ret THEN Pop(c2, c)
     ELSE LET c3 == adapterAddPolicy(c2, "p", policy)
              c4 == IF externalTrx THEN c3 ELSE trxCommit(c3)
          IN Pop(Catch(c4, externalTrx), c)

RECURSIVE addEachPolicy(_, _)
addEachPolicy(c, policies_) ==
  IF policies_ = <<>> THEN c
  ELSE addEachPolicy(adapterAddPolicy(c, "p", Head(policies_)), Tail(policies_))

addPolicies(c, policies_, externalTrx) ==
  IF Len(policies_) = 0 THEN c
  ELSE LET c0 == Push(c, "addPolicies", externalTrx)
           c1 == IF externalTrx THEN c0 ELSE knexTransaction(c0)
           c2 == addEachPolicy(c1, policies_)
           c3 == IF externalTrx THEN c2 ELSE trxCommit(c2)
       IN IF ~Ok(c1) THEN Pop(c1, c) ELSE Pop(Catch(c3, externalTrx), c)

removePolicy(c, policy, externalTrx) ==
  LET c0 == Push(c, "removePolicy", externalTrx)
      c1 == IF externalTrx THEN c0 ELSE knexTransaction(c0)
      c2 == adapterRemovePolicy(c1, "p", policy)
      c3 == IF externalTrx THEN c2 ELSE trxCommit(c2)
  IN IF ~Ok(c1) THEN Pop(c1, c) ELSE Pop(Catch(c3, externalTrx), c)

RECURSIVE removeEachPolicy(_, _)
removeEachPolicy(c, policies_) ==
  IF policies_ = <<>> THEN c
  ELSE removeEachPolicy(adapterRemovePolicy(c, "p", Head(policies_)),
                        Tail(policies_))

removePolicies(c, policies_, externalTrx) ==
  LET c0 == Push(c, "removePolicies", externalTrx)
      c1 == IF externalTrx THEN c0 ELSE knexTransaction(c0)
      c2 == removeEachPolicy(c1, policies_)
      c3 == IF externalTrx THEN c2 ELSE trxCommit(c2)
  IN IF ~Ok(c1) THEN Pop(c1, c) ELSE Pop(Catch(c3, externalTrx), c)

updatePolicies(c, oldPolicies, newPolicies) ==
  LET c0 == Push(c, "updatePolicies", FALSE)
      c1 == knexTransaction(c0)
      c2 == removePolicies(c1, oldPolicies, TRUE)
      c3 == addPolicies(c2, newPolicies, TRUE)
      c4 == trxCommit(c3)
  IN IF ~Ok(c1) THEN Pop(c1, c) ELSE Pop(Catch(c4, FALSE), c)

----------------------------------------------------------------------------
(* Role manager and role metadata storage *)

\* roleManager.addLink(name1, name2)
addLink(c, name1, name2) ==
  Then(Call(c, "roleManager.addLink", <<name1, name2>>),
       LAMBDA d : [d EXCEPT !.links = @ \cup {<<name1, name2>>}])

\* roleManager.deleteLink(name1, name2)
deleteLink(c, name1, name2) ==
  Then(Call(c, "roleManager.deleteLink", <<name1, name2>>),
       LAMBDA d : [d EXCEPT !.links = @ \ {<<name1, name2>>}])

\* roleMetadataStorage.findRoleMetadata(ref, trx): the record the
\* transaction sees, or NoMeta (undefined) when there is none.
findRoleMetadata(c, ref) ==
  WhenOk(Read(c, "findRoleMetadata", <<ref>>,
              [NoResult EXCEPT
                 !.md = IF ref \in MetaRefs THEN c.tmeta[ref] ELSE NoMeta]),
         LAMBDA d : [d EXCEPT !.ret = Answer(d).md])

\* roleMetadataStorage.createRoleMetadata(roleMetadata, trx)
createRoleMetadata(c, roleMetadata) ==
  Then(Call(c, "createRoleMetadata", <<roleMetadata.roleEntityRef>>),
       LAMBDA d : [d EXCEPT !.tmeta[roleMetadata.roleEntityRef] =
                               [modifiedBy |-> roleMetadata.modifiedBy],
                            !.written = @ \cup {roleMetadata.roleEntityRef}])

\* roleMetadataStorage.updateRoleMetadata(newRoleMetadata, ref, trx)
updateRoleMetadata(c, newRoleMetadata, ref) ==
  Then(Call(c, "updateRoleMetadata", <<ref>>),
       LAMBDA d : [d EXCEPT !.tmeta[ref] =
                               [modifiedBy |-> newRoleMetadata.modifiedBy],
                            !.written = @ \cup {ref}])

\* roleMetadataStorage.removeRoleMetadata(ref, trx)
removeRoleMetadata(c, ref) ==
  Then(Call(c, "removeRoleMetadata", <<ref>>),
       LAMBDA d : [d EXCEPT !.tmeta[ref] = NoMeta, !.written = @ \cup {ref}])

\* mergeRoleMetadata(currentMetadata, newMetadata): the stored record with
\* the author of the new one.
mergeRoleMetadata(currentMetadata, newMetadata) ==
  [roleEntityRef |-> newMetadata.roleEntityRef,
   modifiedBy |-> newMetadata.modifiedBy]

\* roleEventEmitter.emit('roleAdded', ref): the listeners run before emit
\* returns, and what a listener throws, emit throws.
emitRoleAdded(c, ref) == Do(c, "roleAdded", <<ref>>, TRUE, FALSE)

----------------------------------------------------------------------------
(* Grouping methods *)

\* hasGroupingPolicy(...policy)
hasGroupingPolicy(c, policy) ==
  LET d == loadFilteredPolicy(c,
             {Filter("g", [i \in 0..1 |-> policy[i + 1]])})
  IN IF ~Ok(d) THEN d ELSE [d EXCEPT !.ret = policy \in d.ret.g]

\* A filter object that holds the first value alone.
FilterArgsFirstValue(ptype, fieldIndex, filter) ==
  IF Len(filter) = 0 THEN {}
  ELSE { Filter(ptype, [j \in fieldIndex..fieldIndex |-> filter[1]]) }

\* The filterArgs getFilteredPolicy and getFilteredGroupingPolicy build:
\* one filter object, holding every v<i + fieldIndex>, pushed once per value.
FilterArgs(ptype, fieldIndex, filter) ==
  IF Len(filter) = 0 THEN {}
  ELSE { Filter(ptype, [j \in fieldIndex..(fieldIndex + Len(filter) - 1) |->
                          filter[j - fieldIndex + 1]]) }

\* getFilteredPolicy(fieldIndex, ...filter): c.ret is the loaded model's
\* "p" rules.
getFilteredPolicy(c, fieldIndex, filter) ==
  LET d == loadFilteredPolicy(c, FilterArgs("p", fieldIndex, filter))
  IN IF ~Ok(d) THEN d ELSE [d EXCEPT !.ret = d.ret.p]

\* getFilteredGroupingPolicy(fieldIndex, ...filter): c.ret is the loaded
\* model's "g" rules.
getFilteredGroupingPolicy(c, fieldIndex, filter) ==
  LET d == loadFilteredPolicy(c, FilterArgs("g", fieldIndex, filter))
  IN IF ~Ok(d) THEN d ELSE [d EXCEPT !.ret = d.ret.g]

\* The metadata write of an add: merge into the record found, or create.
writeRoleMetadata(c, currentMetadata, roleMetadata) ==
  IF ~Ok(c) THEN c
  ELSE IF currentMetadata # NoMeta
    THEN updateRoleMetadata(c, mergeRoleMetadata(currentMetadata, roleMetadata),
                            roleMetadata.roleEntityRef)
    ELSE createRoleMetadata(c, roleMetadata)

\* An addGroupingPolicy that writes the rule and the link before the
\* metadata.
addGroupingPolicyTupleFirst(c, policy, roleMetadata, externalTrx) ==
  LET c0 == Push(c, "addGroupingPolicy", externalTrx)
      c1 == IF externalTrx THEN c0 ELSE knexTransaction(c0)
      entityRef == roleMetadata.roleEntityRef
      c2 == hasGroupingPolicy(c1, policy)
  IN IF ~Ok(c2) \/ c2.ret THEN Pop(c2, c)
     ELSE LET c3 == IF startsWith(entityRef, "role:")
                      THEN findRoleMetadata(c2, entityRef)
                      ELSE [c2 EXCEPT !.ret = NoMeta]
              currentMetadata == c3.ret
              c4 == adapterAddPolicy(c3, "g", policy)
              c5 == addLink(c4, policy[1], policy[2])
              c6 == writeRoleMetadata(c5, currentMetadata, roleMetadata)
              c7 == IF externalTrx THEN c6 ELSE trxCommit(c6)
              c8 == IF Ok(c7) /\ currentMetadata = NoMeta
                      THEN emitRoleAdded(c7, roleMetadata.roleEntityRef)
                      ELSE c7
          IN Pop(Catch(c8, externalTrx), c)

addGroupingPolicy(c, policy, roleMetadata, externalTrx) ==
  LET c0 == Push(c, "addGroupingPolicy", externalTrx)
      c1 == IF externalTrx THEN c0 ELSE knexTransaction(c0)
      entityRef == roleMetadata.roleEntityRef
      c2 == hasGroupingPolicy(c1, policy)
  IN IF ~Ok(c2) \/ c2.ret THEN Pop(c2, c)
     ELSE LET c3 == IF startsWith(entityRef, "role:")
                      THEN findRoleMetadata(c2, entityRef)
                      ELSE [c2 EXCEPT !.ret = NoMeta]
              currentMetadata == c3.ret
              c4 == writeRoleMetadata(c3, currentMetadata, roleMetadata)
              c5 == adapterAddPolicy(c4, "g", policy)
              c6 == addLink(c5, policy[1], policy[2])
              c7 == IF externalTrx THEN c6 ELSE trxCommit(c6)
              c8 == IF Ok(c7) /\ currentMetadata = NoMeta
                      THEN emitRoleAdded(c7, roleMetadata.roleEntityRef)
                      ELSE c7
          IN Pop(Catch(c8, externalTrx), c)

RECURSIVE addEachGroupingPolicy(_, _)
addEachGroupingPolicy(c, policies_) ==
  IF policies_ = <<>> THEN c
  ELSE LET p1 == Head(policies_)
       IN addEachGroupingPolicy(
            addLink(adapterAddPolicy(c, "g", p1), p1[1], p1[2]),
            Tail(policies_))

\* An addGroupingPolicies that emits 'roleAdded' whether or not the role had
\* a metadata record.
addGroupingPoliciesEmitAlways(c, policies_, roleMetadata, externalTrx) ==
  IF Len(policies_) = 0 THEN c
  ELSE LET c0 == Push(c, "addGroupingPolicies", externalTrx)
           c1 == IF externalTrx THEN c0 ELSE knexTransaction(c0)
           c2 == findRoleMetadata(c1, roleMetadata.roleEntityRef)
           currentRoleMetadata == c2.ret
           c3 == writeRoleMetadata(c2, currentRoleMetadata, roleMetadata)
           c4 == addEachGroupingPolicy(c3, policies_)
           c5 == IF externalTrx THEN c4 ELSE trxCommit(c4)
           c6 == emitRoleAdded(c5, roleMetadata.roleEntityRef)
       IN IF ~Ok(c1) THEN Pop(c1, c) ELSE Pop(Catch(c6, externalTrx), c)

addGroupingPolicies(c, policies_, roleMetadata, externalTrx) ==
  IF Len(policies_) = 0 THEN c
  ELSE LET c0 == Push(c, "addGroupingPolicies", externalTrx)
           c1 == IF externalTrx THEN c0 ELSE knexTransaction(c0)
           c2 == findRoleMetadata(c1, roleMetadata.roleEntityRef)
           currentRoleMetadata == c2.ret
           c3 == writeRoleMetadata(c2, currentRoleMetadata, roleMetadata)
           c4 == addEachGroupingPolicy(c3, policies_)
           c5 == IF externalTrx THEN c4 ELSE trxCommit(c4)
           c6 == IF Ok(c5) /\ currentRoleMetadata = NoMeta
                   THEN emitRoleAdded(c5, roleMetadata.roleEntityRef)
                   ELSE c5
       IN IF ~Ok(c1) THEN Pop(c1, c) ELSE Pop(Catch(c6, externalTrx), c)

\* A metadata step that deletes the record of any role left without rules,
\* the administrative one included.
settleRoleMetadataAnyRole(c, roleEntity, roleMetadata) ==
  LET c1 == findRoleMetadata(c, roleEntity)
      currentRoleMetadata == c1.ret
      c2 == getFilteredGroupingPolicy(c1, 1, <<roleEntity>>)
      remainingGroupPolicies == c2.ret
  IN IF ~Ok(c2) THEN c2
     ELSE IF /\ currentRoleMetadata # NoMeta
             /\ Cardinality(remainingGroupPolicies) = 0
       THEN removeRoleMetadata(c2, roleEntity)
     ELSE IF currentRoleMetadata # NoMeta
       THEN updateRoleMetadata(c2,
              mergeRoleMetadata(currentRoleMetadata, roleMetadata), roleEntity)
     ELSE c2

\* The metadata step of a removal that is not part of an update.
settleRoleMetadata(c, roleEntity, roleMetadata) ==
  LET c1 == findRoleMetadata(c, roleEntity)
      currentRoleMetadata == c1.ret
      c2 == getFilteredGroupingPolicy(c1, 1, <<roleEntity>>)
      remainingGroupPolicies == c2.ret
  IN IF ~Ok(c2) THEN c2
     ELSE IF /\ currentRoleMetadata # NoMeta
             /\ Cardinality(remainingGroupPolicies) = 0
             /\ roleEntity # ADMIN_ROLE_NAME
       THEN removeRoleMetadata(c2, roleEntity)
     ELSE IF currentRoleMetadata # NoMeta
       THEN updateRoleMetadata(c2,
              mergeRoleMetadata(currentRoleMetadata, roleMetadata), roleEntity)
     ELSE c2

removeGroupingPolicy(c, policy, roleMetadata, isUpdate, externalTrx) ==
  LET c0 == Push(c, "removeGroupingPolicy", externalTrx)
      c1 == IF externalTrx THEN c0 ELSE knexTransaction(c0)
      roleEntity == policy[2]
      c2 == adapterRemovePolicy(c1, "g", policy)
      c3 == deleteLink(c2, policy[1], policy[2])
      c4 == IF isUpdate THEN c3 ELSE settleRoleMetadata(c3, roleEntity, roleMetadata)
      c5 == IF externalTrx THEN c4 ELSE trxCommit(c4)
  IN IF ~Ok(c1) THEN Pop(c1, c) ELSE Pop(Catch(c5, externalTrx), c)

RECURSIVE removeEachGroupingPolicy(_, _)
removeEachGroupingPolicy(c, policies_) ==
  IF policies_ = <<>> THEN c
  ELSE LET p1 == Head(policies_)
       IN removeEachGroupingPolicy(
            deleteLink(adapterRemovePolicy(c, "g", p1), p1[1], p1[2]),
            Tail(policies_))

removeGroupingPolicies(c, policies_, roleMetadata, isUpdate, externalTrx) ==
  LET c0 == Push(c, "removeGroupingPolicies", externalTrx)
      c1 == IF externalTrx THEN c0 ELSE knexTransaction(c0)
      roleEntity == roleMetadata.roleEntityRef
      c2 == removeEachGroupingPolicy(c1, policies_)
      c3 == IF isUpdate THEN c2 ELSE settleRoleMetadata(c2, roleEntity, roleMetadata)
      c4 == IF externalTrx THEN c3 ELSE trxCommit(c3)
  IN IF ~Ok(c1) THEN Pop(c1, c) ELSE Pop(Catch(c4, externalTrx), c)

\* The error updateGroupingPolicies throws when the old role has no metadata.
NotFound(oldRoleName) == Err("Role metadata was not found", <<oldRoleName>>)

\* An updateGroupingPolicies that goes on without the old role's metadata.
updateGroupingPoliciesUnchecked(c, oldRole, newRole, newRoleMetadata) ==
  LET c0 == Push(c, "updateGroupingPolicies", FALSE)
      oldRoleName == IF Len(oldRole) = 0 THEN Undefined ELSE oldRole[1][2]
      c1 == knexTransaction(c0)
      c2 == findRoleMetadata(c1, oldRoleName)
      currentMetadata == c2.ret
      c4 == removeGroupingPolicies(c2, oldRole,
              [roleEntityRef |-> oldRoleName,
               modifiedBy |-> currentMetadata.modifiedBy], TRUE, TRUE)
      c5 == addGroupingPolicies(c4, newRole, newRoleMetadata, TRUE)
      c6 == trxCommit(c5)
  IN IF ~Ok(c1) THEN Pop(c1, c) ELSE Pop(Catch(c6, FALSE), c)

updateGroupingPolicies(c, oldRole, newRole, newRoleMetadata) ==
  LET c0 == Push(c, "updateGroupingPolicies", FALSE)
      oldRoleName == IF Len(oldRole) = 0 THEN Undefined ELSE oldRole[1][2]
      c1 == knexTransaction(c0)
      c2 == findRoleMetadata(c1, oldRoleName)
      currentMetadata == c2.ret
      c3 == IF Ok(c2) /\ currentMetadata = NoMeta
              THEN [c2 EXCEPT !.err = NotFound(oldRoleName)]
              ELSE c2
      c4 == removeGroupingPolicies(c3, oldRole,
              [roleEntityRef |-> oldRoleName,
               modifiedBy |-> currentMetadata.modifiedBy], TRUE, TRUE)
      c5 == addGroupingPolicies(c4, newRole, newRoleMetadata, TRUE)
      c6 == trxCommit(c5)
  IN IF ~Ok(c1) THEN Pop(c1, c) ELSE Pop(Catch(c6, FALSE), c)

----------------------------------------------------------------------------
(* Point evaluation *)

\* The names reachable from `names` over the role manager's links.
RECURSIVE Closure(_, _)
Closure(ls, names) ==
  LET next == names \cup {t[2] : t \in {u \in ls : u[1] \in names}}
  IN IF next = names THEN names ELSE Closure(ls, next)

\* roleManager.hasLink(name1, name2): name1 is name2 or inherits from it.
hasLink(ls, name1, name2) == name2 \in Closure(ls, {name1})

\* roleManager.hasLink(name1, name2) as the temporary enforcer awaits it:
\* the role manager answers from the links it holds when the call resolves.
roleManagerHasLink(c, name1, name2) ==
  Read(c, "roleManager.hasLink", <<name1, name2>>,
       [NoResult EXCEPT !.link = hasLink(c.links, name1, name2)])

\* The rules of a model, one after another.
RECURSIVE RuleList(_)
RuleList(rules) ==
  IF rules = {} THEN <<>>
  ELSE LET r == CHOOSE x \in rules : TRUE
       IN <<r>> \o RuleList(rules \ {r})

\* g(r.sub, p.sub) of MODEL's matcher, rule after rule: the temporary
\* enforcer awaits the role manager's answer for each rule of its model;
\* c.ret.linked collects the rules whose subject the request's has a link
\* to.
RECURSIVE matchEach(_, _, _)
matchEach(c, sub, rules) ==
  IF rules = <<>> THEN c
  ELSE matchEach(WhenOk(roleManagerHasLink(c, sub, rules[1][1]),
                        LAMBDA d : IF Answer(d).link
                                     THEN [d EXCEPT !.ret.linked = @ \cup {rules[1]}]
                                     ELSE d),
                 sub, Tail(rules))

\* The rest of MODEL's matcher on a request and a policy rule.
Matcher(obj, act, rule) == obj = rule[2] /\ act = rule[3]

\* The decision over the rules that match: a rule that allows grants the
\* request.  The stores of the model hold allow rules alone.
Effect(matched) == \E rule \in matched : rule[4] = "allow"

\* await tempEnforcer.enforce(entityRef, resourceType, action): the matcher
\* is evaluated on every rule of the model, which asks the role manager,
\* and a matching rule decides.  c.ret holds the decision and the rules of the
\* model.
tempEnforce(c, model, sub, obj, act) ==
  WhenOk(matchEach([c EXCEPT !.ret = [linked |-> {}]], sub, RuleList(model)),
         LAMBDA d : [d EXCEPT !.ret =
                       [ allowed |-> Effect({rule \in d.ret.linked :
                                              Matcher(obj, act, rule)}),
                         model |-> model ]])

\* A filter that leaves the subject open whatever the list of roles.
EnforceFilterAnySubject(resourceType, action, roles) ==
  { Filter("p", [i \in 1..2 |-> <<resourceType, action>>[i]]) }

\* The filter objects enforce builds: one per role on fields 0-2, or with
\* no roles one on fields 1-2.
EnforceFilter(resourceType, action, roles) ==
  IF Len(roles) > 0
    THEN { Filter("p", [i \in 0..2 |-> <<roles[k], resourceType, action>>[i + 1]]) :
             k \in DOMAIN roles }
    ELSE { Filter("p", [i \in 1..2 |-> <<resourceType, action>>[i]]) }

NoRet == [allowed |-> FALSE, model |-> {}]

\* roleManager.clear(), which tempEnforcer.buildRoleLinks() awaits on the
\* role manager it was given: the delegate's own.  What clear() does to the
\* links is the role manager's: it drops them all or keeps them.
roleManagerClear(c) ==
  Then(Call(c, "roleManager.clear", <<>>),
       LAMBDA d : IF clears THEN [d EXCEPT !.links = {}] ELSE d)

\* A link added for every "g" rule of a model.
RECURSIVE addEachLink(_, _)
addEachLink(c, gRules) ==
  IF gRules = {} THEN c
  ELSE LET g1 == CHOOSE g \in gRules : TRUE
       IN addEachLink(addLink(c, g1[1], g1[2]), gRules \ {g1})

\* tempEnforcer.buildRoleLinks() after setRoleManager(this.roleManager): the
\* role manager is cleared and given the links of the model's "g" rules.
buildRoleLinks(c, gRules) == addEachLink(roleManagerClear(c), gRules)

\* enforce(entityRef, resourceType, action, roles): the filtered load, the
\* rebuilding of the role links and the evaluation are awaited one after
\* another; c.ret holds the decision and the rules of the model the
\* temporary enforcer was given.
enforce(c, entityRef, resourceType, action, roles) ==
  LET c0 == Push(c, "enforce", FALSE)
      c1 == loadFilteredPolicy(c0, EnforceFilter(resourceType, action, roles))
      loaded == c1.ret.p
      filteredPolicies ==
        {p \in loaded : startsWith(p[1], "user") \/ startsWith(p[1], "group")}
      model == IF Len(roles) = 0 THEN filteredPolicies ELSE loaded
      c2 == buildRoleLinks(c1, c1.ret.g)
  IN IF ~Ok(c1) THEN Pop(c1, c)
     ELSE Pop(tempEnforce(c2, model, entityRef, resourceType, action), c)

----------------------------------------------------------------------------
(* Invocations *)

\* The subsequences of the sequence `rules` that are at most k long: the
\* batches of distinct rules, in the order of `rules`.
RECURSIVE Batches(_, _)
Batches(rules, k) ==
  IF rules = <<>> \/ k = 0 THEN {<<>>}
  ELSE Batches(Tail(rules), k) \cup
       { <<Head(rules)>> \o b : b \in Batches(Tail(rules), k - 1) }

PolicyBatches == Batches(PolicyRules, MaxBatch)
GroupBatches == Batches(GroupRules, MaxBatch)

NoDao == [roleEntityRef |-> "none", modifiedBy |-> "none"]

NoWrites == [r \in MetaRefs |-> Untouched]

\* The collaborators' state, as a request finds it when it calls.
Stores ==
  [p |-> policies, g |-> groupings, links |-> links, meta |-> metadata]

NoStores ==
  [p |-> {}, g |-> {}, links |-> {}, meta |-> [r \in MetaRefs |-> NoMeta]]

\* A caller that has no invocation under way.
NoCall ==
  [ st |-> "idle", op |-> "none", ext |-> FALSE, isUpdate |-> FALSE,
    old |-> <<>>, new |-> <<>>, md |-> NoDao, args |-> <<>>, ret |-> NoRet,
    err |-> NoErr, events |-> <<>>, before |-> NoStores, w |-> NoWrites ]

\* The invocation a caller makes: the method, its arguments, and the
\* collaborators' state at the time of the call.
Request(op, externalTrx, isUpdate, old, new, md, args) ==
  [NoCall EXCEPT !.op = op, !.ext = externalTrx, !.isUpdate = isUpdate,
                 !.old = old, !.new = new, !.md = md, !.args = args,
                 !.before = Stores]

\* A caller that owns a transaction and hands it to the delegate: it opens
\* the transaction before the call and, in line with the ownership contract,
\* commits when the call returns and rolls back when it throws.
callerTransaction(t, c) ==
  IF ~t.ext THEN c
  ELSE Then(Do(c, "knex.transaction", <<>>, FALSE, TRUE),
            LAMBDA d : [d EXCEPT !.tmeta = d.meta, !.written = {}])

callerClose(t, c) ==
  IF ~t.ext \/ Awaiting(c) THEN c
  ELSE IF Ok(c)
    THEN Then(Do(c, "trx.commit", <<>>, FALSE, TRUE),
              LAMBDA d : [d EXCEPT !.meta = d.tmeta, !.written = {}])
    ELSE WhenOk(Then(Do([c EXCEPT !.err = NoErr], "trx.rollback", <<>>,
                        FALSE, TRUE),
                     LAMBDA d : [d EXCEPT !.tmeta = d.meta, !.written = {}]),
                LAMBDA d : [d EXCEPT !.err = c.err])

\* The method of invocation t, run in context c.
Body(t, c) ==
  CASE t.op = "addPolicy" -> addPolicy(c, t.new[1], t.ext)
    [] t.op = "addPolicies" -> addPolicies(c, t.new, t.ext)
    [] t.op = "removePolicy" -> removePolicy(c, t.old[1], t.ext)
    [] t.op = "removePolicies" -> removePolicies(c, t.old, t.ext)
    [] t.op = "updatePolicies" -> updatePolicies(c, t.old, t.new)
    [] t.op = "addGroupingPolicy" -> addGroupingPolicy(c, t.new[1], t.md, t.ext)
    [] t.op = "addGroupingPolicies" ->
         addGroupingPolicies(c, t.new, t.md, t.ext)
    [] t.op = "removeGroupingPolicy" ->
         removeGroupingPolicy(c, t.old[1], t.md, t.isUpdate, t.ext)
    [] t.op = "removeGroupingPolicies" ->
         removeGroupingPolicies(c, t.old, t.md, t.isUpdate, t.ext)
    [] t.op = "updateGroupingPolicies" ->
         updateGroupingPolicies(c, t.old, t.new, t.md)
    [] t.op = "enforce" ->
         enforce(c, t.args[1], t.args[2], t.args[3], t.args[4])
    [] t.op = "getFilteredPolicy" ->
         Pop(getFilteredPolicy(Push(c, "getFilteredPolicy", FALSE),
                               t.args[1], t.args[2]), c)
    [] t.op = "getFilteredGroupingPolicy" ->
         Pop(getFilteredGroupingPolicy(Push(c, "getFilteredGroupingPolicy", FALSE),
                                       t.args[1], t.args[2]), c)

\* Invocation t from the caller's side: with a transaction of the caller's
\* around it when the caller hands one in.
Invocation(t, c) == callerClose(t, Body(t, callerTransaction(t, c)))

\* What invocation t returned to its caller, from the context d it ended in.
Outcome(t, d) ==
  IF ~Ok(d) THEN NoRet
  ELSE IF t.op = "enforce" THEN d.ret
  ELSE IF t.op \in {"getFilteredPolicy", "getFilteredGroupingPolicy"}
    THEN [allowed |-> FALSE, model |-> d.ret]
  ELSE NoRet

\* What a transaction with writes w reads from the metadata storage: its own
\* writes over the committed records.
View(w) == [r \in MetaRefs |-> IF w[r] = Untouched THEN metadata[r] ELSE w[r]]

\* The context in which invocation t is resumed: the collaborators' state
\* as it is now, the metadata as t's transaction sees it, the calls of t
\* that have resolved.
TaskContext(t, fail) ==
  [Enter("caller", FALSE, fail) EXCEPT
     !.tmeta = View(t.w),
     !.written = {r \in MetaRefs : t.w[r] # Untouched},
     !.log = t.events]

\* Which of the calls issued in one resumption fails: none, the awaited
\* one, or the synchronous one after it.
FailureInputs == {0, 1, 2}

\* Invocation t of caller i runs from where it was suspended: the call it
\* awaits is issued and resolves, and the code after it runs up to the next
\* await, where the invocation is suspended again, or to the end of the
\* method, where the caller gets the outcome.
Resume(i, t, fail) ==
  \E d \in {Invocation(t, TaskContext(t, fail))} :
    /\ policies' = d.p
    /\ groupings' = d.g
    /\ links' = d.links
    /\ metadata' = d.meta
    /\ UNCHANGED clears
    /\ tasks' = [tasks EXCEPT ![i] =
         IF Awaiting(d)
           THEN [t EXCEPT !.st = "run",
                          !.events = d.events,
                          !.w = [r \in MetaRefs |->
                                   IF r \in d.written THEN d.tmeta[r]
                                                      ELSE Untouched]]
           ELSE [t EXCEPT !.st = "done",
                          !.events = d.events,
                          !.err = d.err,
                          !.ret = Outcome(t, d),
                          !.w = NoWrites]]

\* A caller with nothing under way calls the method: the invocation
\* starts, and the first call it awaits resolves in its next step.
Invoke(t) ==
  \E i \in DOMAIN tasks :
    /\ tasks[i].st = "idle"
    /\ tasks' = [tasks EXCEPT ![i] = [t EXCEPT !.st = "run"]]
    /\ UNCHANGED <<policies, groupings, links, metadata, clears>>

\* The call a suspended invocation awaits resolves.
Step ==
  \E i \in DOMAIN tasks :
    /\ tasks[i].st = "run"
    /\ \E fail \in FailureInputs : Resume(i, tasks[i], fail)

\* The caller has taken the outcome of its call and goes on.
Return ==
  \E i \in DOMAIN tasks :
    /\ tasks[i].st = "done"
    /\ tasks' = [tasks EXCEPT ![i] = NoCall]
    /\ UNCHANGED <<policies, groupings, links, metadata, clears>>

\* The outcome the first caller holds.
call == IF tasks[1].st = "done" THEN tasks[1] ELSE NoCall

AddPolicy ==
  \E policy \in PolicyUniverse, externalTrx \in BOOLEAN :
    Invoke(Request("addPolicy", externalTrx, FALSE, <<>>, <<policy>>, NoDao, <<>>))

AddPolicies ==
  \E batch \in PolicyBatches :
    Invoke(Request("addPolicies", FALSE, FALSE, <<>>, batch, NoDao, <<>>))

RemovePolicy ==
  \E policy \in PolicyUniverse, externalTrx \in BOOLEAN :
    Invoke(Request("removePolicy", externalTrx, FALSE, <<policy>>, <<>>, NoDao, <<>>))

RemovePolicies ==
  \E batch \in PolicyBatches :
    Invoke(Request("removePolicies", FALSE, FALSE, batch, <<>>, NoDao, <<>>))

UpdatePolicies ==
  \E old \in PolicyBatches, new \in PolicyBatches :
    Invoke(Request("updatePolicies", FALSE, FALSE, old, new, NoDao, <<>>))

AddGroupingPolicy ==
  \E policy \in GroupUniverse, md \in RoleMetadataDao, externalTrx \in BOOLEAN :
    Invoke(Request("addGroupingPolicy", externalTrx, FALSE, <<>>, <<policy>>,
                   md, <<>>))

AddGroupingPolicies ==
  \E batch \in GroupBatches, md \in RoleMetadataDao :
    Invoke(Request("addGroupingPolicies", FALSE, FALSE, <<>>, batch, md, <<>>))

RemoveGroupingPolicy ==
  \E policy \in GroupUniverse, md \in RoleMetadataDao,
     isUpdate \in BOOLEAN, externalTrx \in BOOLEAN :
    Invoke(Request("removeGroupingPolicy", externalTrx, isUpdate, <<policy>>,
                   <<>>, md, <<>>))

RemoveGroupingPolicies ==
  \E batch \in GroupBatches, md \in RoleMetadataDao, isUpdate \in BOOLEAN :
    Invoke(Request("removeGroupingPolicies", FALSE, isUpdate, batch, <<>>,
                   md, <<>>))

UpdateGroupingPolicies ==
  \E old \in GroupBatches, new \in GroupBatches, md \in RoleMetadataDao :
    Invoke(Request("updateGroupingPolicies", FALSE, FALSE, old, new, md, <<>>))

\* The requests of point evaluation and the stores it runs against.
EnforceRules ==
  { <<Alice, "catalog-entity", "read", "allow">>,
    <<Alice, "catalog-entity", "delete", "allow">>,
    <<Team, "catalog-entity", "read", "allow">>,
    <<RoleA, "catalog-entity", "read", "allow">>,
    <<RoleA, "catalog-entity", "delete", "allow">>,
    <<ADMIN_ROLE_NAME, "catalog-entity", "read", "allow">>,
    <<Userpool, "catalog-entity", "read", "allow">> }

EnforceLinks == { <<Alice, RoleA>>, <<Alice, Team>>, <<Team, RoleA>> }

Principals == {Alice, Bob, Userpool}
ResourceTypes == {"catalog-entity", "policy-entity"}
Actions == {"read", "delete"}
RoleLists == Batches(<<RoleA, ADMIN_ROLE_NAME>>, MaxRoles)

Enforce ==
  \E entityRef \in Principals, resourceType \in ResourceTypes,
     action \in Actions, roles \in RoleLists :
    Invoke(Request("enforce", FALSE, FALSE, <<>>, <<>>, NoDao,
                   <<entityRef, resourceType, action, roles>>))

\* The filtered reads and the stores they run against.
QueryRules ==
  { <<Alice, "catalog-entity", "read", "allow">>,
    <<Alice, "catalog-entity", "delete", "allow">>,
    <<RoleA, "catalog-entity", "read", "allow">>,
    <<RoleA, "policy-entity", "read", "deny">> }

FilterValues == {Alice, RoleA, "catalog-entity", "read", "allow"}

\* The sequences of one to k filter values.
RECURSIVE FilterLists(_)
FilterLists(k) ==
  IF k = 0 THEN {}
  ELSE {<<v>> : v \in FilterValues} \cup
       {<<v>> \o f : v \in FilterValues, f \in FilterLists(k - 1)}

GetFilteredPolicy ==
  \E fieldIndex \in 0..MaxFieldIndex, filter \in FilterLists(MaxValues) :
    Invoke(Request("getFilteredPolicy", FALSE, FALSE, <<>>, <<>>, NoDao,
                   <<fieldIndex, filter>>))

GetFilteredGroupingPolicy ==
  \E fieldIndex \in 0..MaxFieldIndex, filter \in FilterLists(MaxValues) :
    Invoke(Request("getFilteredGroupingPolicy", FALSE, FALSE, <<>>, <<>>,
                   NoDao, <<fieldIndex, filter>>))

----------------------------------------------------------------------------
(* Concurrent invocations *)

\* Two requests call the delegate at once, each with the metadata of the
\* role its rules name.
GroupingCalls ==
  { Request("addGroupingPolicy", FALSE, FALSE, <<>>, <<r>>,
            [roleEntityRef |-> r[2], modifiedBy |-> "user:default/author"], <<>>) :
      r \in GroupUniverse } \cup
  { Request("removeGroupingPolicy", FALSE, FALSE, <<r>>, <<>>,
            [roleEntityRef |-> r[2], modifiedBy |-> "user:default/author"], <<>>) :
      r \in GroupUniverse } \cup
  { Request("addGroupingPolicies", FALSE, FALSE, <<>>, b,
            [roleEntityRef |-> b[1][2], modifiedBy |-> "user:default/author"], <<>>) :
      b \in {x \in GroupBatches :
               Len(x) > 0 /\ \A k \in DOMAIN x : x[k][2] = x[1][2]} }

PolicyCalls ==
  { Request("addPolicy", FALSE, FALSE, <<>>, <<r>>, NoDao, <<>>) :
      r \in PolicyUniverse } \cup
  { Request("addPolicies", FALSE, FALSE, <<>>, b, NoDao, <<>>) :
      b \in PolicyBatches } \cup
  { Request("removePolicies", FALSE, FALSE, b, <<>>, NoDao, <<>>) :
      b \in PolicyBatches }

\* A request asks for a decision while another gives the subject the role
\* whose rule allows it.
EnforceRaceCalls ==
  { Request("enforce", FALSE, FALSE, <<>>, <<>>, NoDao,
            <<Alice, "catalog-entity", "read", <<RoleA>>>>),
    Request("addGroupingPolicy", FALSE, FALSE, <<>>, << <<Alice, RoleA>> >>,
            [roleEntityRef |-> RoleA, modifiedBy |-> "user:default/author"],
            <<>>) }

\* The key a create writes is held: by a committed record, or by a write
\* of another transaction that has not committed.
KeyTaken(i, ref) ==
  \/ metadata[ref] # NoMeta
  \/ \E j \in DOMAIN tasks \ {i} :
       tasks[j].w[ref] \notin {Untouched, NoMeta}

\* The storage rejected a create of invocation `after` of caller i, issued
\* since `before`, under a key that is held.
RejectedCreate(i, before, after) ==
  \E k \in DOMAIN after.events :
    /\ k > Len(before.events)
    /\ ~after.events[k].ok
    /\ after.events[k].e = "createRoleMetadata"
    /\ KeyTaken(i, after.events[k].a[1])

InvokeGrouping == \E t \in GroupingCalls : Invoke(t)

InvokePolicy == \E t \in PolicyCalls : Invoke(t)

InvokeEnforceRace == \E t \in EnforceRaceCalls : Invoke(t)

\* The call a suspended invocation awaits resolves, the collaborators up:
\* it succeeds, or it is a create of a record under a key that is held and
\* the storage rejects it.
StepUp ==
  \E i \in DOMAIN tasks :
    /\ tasks[i].st = "run"
    /\ \E fail \in {0, 1} :
         /\ Resume(i, tasks[i], fail)
         /\ fail = 0 \/ RejectedCreate(i, tasks[i], tasks'[i])
----------------------------------------------------------------------------
(* Specifications *)

\* One caller calls a method once.  No mutating method calls the role
\* manager's clear(), so one kind of role manager stands for both.  Either
\* nothing is stored; or the policy
\* rules stored are any, beside one grouping rule with its link and its
\* role's metadata record; or the grouping rules stored are any, with their
\* links, beside one policy rule, and a role has a metadata record or none
\* whatever rules name it, as earlier calls that failed leave it.
Init ==
  /\ \/ /\ policies = {}
        /\ groupings = {}
        /\ metadata = [r \in MetaRefs |-> NoMeta]
     \/ /\ policies \in SUBSET PolicyUniverse
        /\ groupings = {GroupRules[1]}
        /\ metadata = [r \in MetaRefs |->
                         IF r = GroupRules[1][2]
                           THEN [modifiedBy |-> "user:default/author"]
                           ELSE NoMeta]
     \/ /\ policies = {PolicyRules[1]}
        /\ groupings \in SUBSET GroupUniverse
        /\ metadata \in [MetaRefs -> {NoMeta, [modifiedBy |-> "user:default/author"]}]
  /\ links = groupings
  /\ clears = FALSE
  /\ tasks = <<NoCall>>

Next ==
  \/ AddPolicy
  \/ AddPolicies
  \/ RemovePolicy
  \/ RemovePolicies
  \/ UpdatePolicies
  \/ AddGroupingPolicy
  \/ AddGroupingPolicies
  \/ RemoveGroupingPolicy
  \/ RemoveGroupingPolicies
  \/ UpdateGroupingPolicies
  \/ Step

Spec == Init /\ [][Next]_vars

\* A store in which the links are the grouping rules and a role has a metadata
\* record when a grouping rule names it.
Consistent ==
  /\ groupings \in SUBSET GroupUniverse
  /\ links = groupings
  /\ metadata = [r \in MetaRefs |->
                   IF \E t \in groupings : t[2] = r
                     THEN [modifiedBy |-> "user:default/author"]
                     ELSE NoMeta]

InitRace ==
  /\ policies = {}
  /\ Consistent
  /\ clears = FALSE
  /\ tasks = <<NoCall, NoCall>>

NextRace ==
  \/ InvokeGrouping
  \/ StepUp

SpecRace == InitRace /\ [][NextRace]_vars

InitPolicyRace ==
  /\ policies = {}
  /\ groupings = {}
  /\ links = {}
  /\ metadata = [r \in MetaRefs |-> NoMeta]
  /\ clears = FALSE
  /\ tasks = <<NoCall, NoCall>>

NextPolicyRace ==
  \/ InvokePolicy
  \/ StepUp

SpecPolicyRace == InitPolicyRace /\ [][NextPolicyRace]_vars

\* Two callers, one rule of a role stored and no link: enforce and
\* addGroupingPolicy interleave await by await, and any awaited call may
\* fail.
InitEnforceRace ==
  /\ policies = {<<RoleA, "catalog-entity", "read", "allow">>}
  /\ groupings = {}
  /\ links = {}
  /\ metadata = [r \in MetaRefs |-> NoMeta]
  /\ clears \in BOOLEAN
  /\ tasks = <<NoCall, NoCall>>

NextEnforceRace ==
  \/ InvokeEnforceRace
  \/ Step

SpecEnforceRace == InitEnforceRace /\ [][NextEnforceRace]_vars

\* One caller calls the single-rule grouping methods one after another,
\* from nothing stored.
InitSequence ==
  /\ policies = {}
  /\ groupings = {}
  /\ links = {}
  /\ metadata = [r \in MetaRefs |-> NoMeta]
  /\ clears = FALSE
  /\ tasks = <<NoCall>>

NextSequence ==
  \/ AddGroupingPolicy
  \/ RemoveGroupingPolicy
  \/ Step
  \/ Return

SpecSequence == InitSequence /\ [][NextSequence]_vars

\* Point evaluation against stores of policy rules and links: the
\* grouping rules are the links, and a role has a metadata record when a
\* grouping rule names it.  The delegate is constructed with a role manager
\* of either kind.
InitEnforce ==
  /\ policies \in SUBSET EnforceRules
  /\ links \in SUBSET EnforceLinks
  /\ groupings = links
  /\ metadata = [r \in MetaRefs |->
                   IF \E t \in links : t[2] = r
                     THEN [modifiedBy |-> "user:default/author"]
                     ELSE NoMeta]
  /\ clears \in BOOLEAN
  /\ tasks = <<NoCall>>

NextEnforce ==
  \/ Enforce
  \/ Step

SpecEnforce == InitEnforce /\ [][NextEnforce]_vars

\* Filtered reads against every store of policy and grouping rules.
InitQuery ==
  /\ policies \in SUBSET QueryRules
  /\ Consistent
  /\ clears = FALSE
  /\ tasks = <<NoCall>>

NextQuery ==
  \/ GetFilteredPolicy
  \/ GetFilteredGroupingPolicy
  \/ Step
  \/ Return

SpecQuery == InitQuery /\ [][NextQuery]_vars

----------------------------------------------------------------------------
(* Reading the record of a call *)

\* The positions of a call's events that satisfy a test are found with
\* these: the events named e that succeeded.
Done(cl, e) == {i \in DOMAIN cl.events : cl.events[i].e = e /\ cl.events[i].ok}

\* The events named e, failed ones included.
Issued(cl, e) == {i \in DOMAIN cl.events : cl.events[i].e = e}

\* The calls that write: to the adapter, the role manager, the metadata.
WriteEvents ==
  { "adapter.addPolicy", "adapter.removePolicy", "roleManager.addLink",
    "roleManager.deleteLink", "createRoleMetadata", "updateRoleMetadata",
    "removeRoleMetadata" }

Writes(cl) == {i \in DOMAIN cl.events : cl.events[i].e \in WriteEvents}

\* The roles the rules of a batch name in their second field.
RolesOf(batch) == {batch[i][2] : i \in DOMAIN batch}

Rules(batch) == {batch[i] : i \in DOMAIN batch}

Threw(cl) == cl.err # NoErr

\* The caller holds the outcome of a call.
Returned(cl) == cl.st = "done"

\* The collaborators' state is what the call found.
StoresAsBefore(cl) == Stores = cl.before

----------------------------------------------------------------------------
(* Claims *)

\* C1: updatePolicies(old, new) is an atomic replace: when it succeeds every
\* rule of new is stored and no rule of old is stored unless it is in new;
\* when it throws, the stored policy rules are what they were before the call.
C1_UpdatePoliciesAtomic ==
  call.op = "updatePolicies" =>
    IF Threw(call)
      THEN policies = call.before.p
      ELSE /\ Rules(call.new) \subseteq policies
           /\ (Rules(call.old) \cap policies) \subseteq Rules(call.new)

\* C2: a mutating method called without an external transaction closes the
\* transaction it opened exactly once: a commit when it returns, a rollback
\* when it throws.
C2_OwnedTrxClosedOnce ==
  (call.op # "none" /\ ~call.ext /\ Done(call, "knex.transaction") # {}) =>
    IF Threw(call)
      THEN /\ Cardinality(Issued(call, "trx.rollback")) = 1
           /\ Done(call, "trx.commit") = {}
      ELSE /\ Cardinality(Done(call, "trx.commit")) = 1
           /\ Issued(call, "trx.rollback") = {}

\* The error of the failed call i reached the frame that owns the
\* transaction: it is the error of the invocation, or the owner's rollback
\* for it failed in its turn.
Rethrown(cl, i) ==
  \/ cl.err = Err(cl.events[i].e, cl.events[i].a)
  \/ \E j \in Issued(cl, "trx.rollback") :
       /\ j > i
       /\ ~cl.events[j].ext
       /\ ~cl.events[j].ok
       /\ cl.err = Err("trx.rollback", <<>>)

\* C3: a method handed an external transaction never opens, commits or rolls
\* back a transaction, and the error of a call that fails in it is rethrown
\* to its caller.
C3_ExternalTrxUntouched ==
  \A i \in DOMAIN call.events :
    LET ev == call.events[i]
    IN ev.ext =>
         /\ ev.e \notin {"knex.transaction", "trx.commit", "trx.rollback"}
         /\ ~ev.ok => Rethrown(call, i)

\* C3 witness: an addGroupingPolicy handed its caller's transaction had its
\* link write fail; the caller got that error and rolled back.
C3_Witness ==
  /\ call.op = "addGroupingPolicy"
  /\ call.ext
  /\ \E i \in Issued(call, "roleManager.addLink") :
       /\ call.events[i].ext
       /\ ~call.events[i].ok
       /\ call.err = Err(call.events[i].e, call.events[i].a)
  /\ \E j \in Done(call, "trx.rollback") : call.events[j].by = "caller"

\* A role other than the administrative one has a metadata record exactly
\* when a stored grouping rule names it in its second field.
MetadataMatchesGroupings(meta, g) ==
  \A r \in MetaRefs \ {ADMIN_ROLE_NAME} :
    meta[r] # NoMeta <=> \E t \in g : t[2] = r

\* The call handed metadata of the role its rules name: the role of the rules
\* it adds, and when it adds none the role of the rules it removes.
MetadataOfItsRules(cl) ==
  /\ RolesOf(cl.new) \subseteq {cl.md.roleEntityRef}
  /\ (cl.op # "updateGroupingPolicies" \/ cl.new = <<>>) =>
       RolesOf(cl.old) \subseteq {cl.md.roleEntityRef}

\* C4: a completed grouping method, an update with an empty new set or with
\* another role included, leaves every non-administrative role with a
\* metadata record exactly when a stored grouping rule names it.
C4_MetadataIffGrouping ==
  ( /\ Returned(call)
    /\ MetadataMatchesGroupings(call.before.meta, call.before.g)
    /\ ~Threw(call)
    /\ ~call.isUpdate
    /\ MetadataOfItsRules(call) )
  => MetadataMatchesGroupings(metadata, groupings)

\* C5: no method deletes the administrative role's metadata record: it is
\* never handed to removeRoleMetadata, and once stored it stays stored, at
\* every step of every invocation.
C5_AdminMetadataKept ==
  [][ /\ metadata[ADMIN_ROLE_NAME] # NoMeta => metadata'[ADMIN_ROLE_NAME] # NoMeta
      /\ \A i \in Issued(tasks'[1], "removeRoleMetadata") :
           tasks'[1].events[i].a # <<ADMIN_ROLE_NAME>>
    ]_vars

\* C5 witness: a removal took the last grouping rule of the administrative
\* role and its metadata record is still there.
C5_Witness ==
  /\ call.op \in {"removeGroupingPolicy", "removeGroupingPolicies"}
  /\ ~call.isUpdate
  /\ ~Threw(call)
  /\ ADMIN_ROLE_NAME \in RolesOf(call.old)
  /\ call.md.roleEntityRef = ADMIN_ROLE_NAME
  /\ \E t \in call.before.g : t[2] = ADMIN_ROLE_NAME
  /\ ~\E t \in groupings : t[2] = ADMIN_ROLE_NAME
  /\ metadata[ADMIN_ROLE_NAME] # NoMeta
  /\ \E i \in Done(call, "updateRoleMetadata") :
       call.events[i].a = <<ADMIN_ROLE_NAME>>

\* C6: a completed removal of stored rules that is not part of an update, for
\* each non-administrative role its removed rules name that has a metadata
\* record:
\* the record is deleted when no grouping rule of the role remains, and is
\* kept and updated when one remains.
C6_RemovalSettlesMetadata ==
  ( /\ call.op \in {"removeGroupingPolicy", "removeGroupingPolicies"}
    /\ ~call.isUpdate
    /\ ~Threw(call)
    /\ Rules(call.old) \subseteq call.before.g )
  => \A r \in RolesOf(call.old) \ {ADMIN_ROLE_NAME} :
       call.before.meta[r] # NoMeta =>
         IF \E t \in groupings : t[2] = r
           THEN /\ metadata[r] # NoMeta
                /\ \E i \in Done(call, "updateRoleMetadata") :
                     call.events[i].a = <<r>>
           ELSE metadata[r] = NoMeta

\* The rule of a single add is stored before the call.
StoredBefore(cl) ==
  IF cl.op = "addPolicy" THEN cl.new[1] \in cl.before.p
                         ELSE cl.new[1] \in cl.before.g

\* hasPolicy or hasGroupingPolicy of the rule of the single add `call`.
HasAdded ==
  IF call.op = "addPolicy"
    THEN hasPolicy(Alone(Enter("caller", FALSE, 0)), call.new[1]).ret
    ELSE hasGroupingPolicy(Alone(Enter("caller", FALSE, 0)), call.new[1]).ret

\* C7: addPolicy and addGroupingPolicy are idempotent: a call for a rule that
\* is stored already writes nothing, emits nothing and leaves rules, links and
\* metadata as they are, a call that returns for a rule that is not stored
\* writes it to the adapter once, and after every call that returns hasPolicy
\* (hasGroupingPolicy) of the rule is true.
C7_AddIdempotent ==
  call.op \in {"addPolicy", "addGroupingPolicy"} =>
    /\ StoredBefore(call) =>
         /\ Writes(call) = {}
         /\ Issued(call, "roleAdded") = {}
         /\ StoresAsBefore(call)
    /\ (~StoredBefore(call) /\ ~Threw(call)) =>
         \E i \in DOMAIN call.events :
           Done(call, "adapter.addPolicy") = {i}
    /\ ~Threw(call) => HasAdded

\* C7 witness: a second addGroupingPolicy of a stored rule has returned,
\* having done no more than open its transaction and look the rule up.
C7_Witness ==
  /\ call.op = "addGroupingPolicy"
  /\ ~call.ext
  /\ ~Threw(call)
  /\ call.new[1] \in call.before.g
  /\ call.new[1] \in groupings
  /\ Writes(call) = {}
  /\ Done(call, "adapter.loadFilteredPolicy") # {}

\* The rules a successful add call had to store: those of its batch, or
\* for a single add its rule unless stored before.
Adds(cl) ==
  IF cl.op = "addGroupingPolicy" THEN Rules(cl.new) \ cl.before.g
                                 ELSE Rules(cl.new)

\* C8: 'roleAdded' is emitted once per newly created role: no call emits it
\* twice, every emitted one carries the role of the metadata handed in, which
\* had no record before the call, and an add that returns, with one rule or
\* many, emits exactly one when the role had no record and none when it had.
C8_RoleAddedOnce ==
  call.op \in {"addGroupingPolicy", "addGroupingPolicies",
               "updateGroupingPolicies"} =>
    LET role == call.md.roleEntityRef
        emitted == Issued(call, "roleAdded")
    IN /\ Cardinality(emitted) <= 1
       /\ \A i \in emitted :
            call.events[i].a = <<role>> /\ call.before.meta[role] = NoMeta
       /\ (~Threw(call) /\ Adds(call) # {}) =>
            Cardinality(emitted) =
              (IF call.before.meta[role] = NoMeta THEN 1 ELSE 0)

\* C8 witness: addGroupingPolicies stored two rules of a role that had no
\* metadata record and emitted one 'roleAdded'.
C8_Witness ==
  /\ call.op = "addGroupingPolicies"
  /\ ~Threw(call)
  /\ Len(call.new) = 2
  /\ Cardinality(Done(call, "adapter.addPolicy")) = 2
  /\ Done(call, "createRoleMetadata") # {}
  /\ Cardinality(Issued(call, "roleAdded")) = 1

\* C9: 'roleAdded' is emitted only after the transaction that created the
\* role's metadata record has committed, when the add owns its transaction
\* and when it runs in the transaction of updateGroupingPolicies.
C9_RoleAddedAfterCommit ==
  ((call.op = "updateGroupingPolicies" \/ ~call.ext) /\ MetadataOfItsRules(call)) =>
    \A i \in Issued(call, "roleAdded") :
      \E j \in Done(call, "trx.commit") : j < i

\* An enforce with an empty list of roles has returned.
EnforcedWithoutRoles ==
  call.op = "enforce" /\ ~Threw(call) /\ call.args[4] = <<>>

\* The rule is one for the resource type and action of the request.
Matching(rule, args) == rule[2] = args[2] /\ rule[3] = args[3]

KindUser == <<"u", "s", "e", "r">>
KindGroup == <<"g", "r", "o", "u", "p">>

\* C10: enforce with an empty list of roles decides from stored rules for
\* (resourceType, action) whose subject is a principal of kind user or
\* group alone: every rule the temporary enforcer evaluates is such a rule.
C10_OnlyUserOrGroupKind ==
  EnforcedWithoutRoles =>
    \A p \in call.ret.model :
      /\ p \in policies
      /\ Matching(p, call.args)
      /\ Kind(p[1]) \in {KindUser, KindGroup}

\* An enforce with a list of roles has returned.
EnforcedWithRoles ==
  call.op = "enforce" /\ ~Threw(call) /\ call.args[4] # <<>>

\* The stored rules whose first three fields are (r, resourceType, action)
\* for a role r of the list.
RulesOfRoles(args) ==
  {p \in policies : p[1] \in Rules(args[4]) /\ Matching(p, args)}

\* A stored allow rule for a role of the list that the subject is a member
\* of in the role graph, as the evaluation finds the graph.
HeldRoleRule(args) ==
  \E p \in RulesOfRoles(args) :
    p[4] = "allow" /\ hasLink(links, args[1], p[1])

Selected(stored, fieldIndex, filter) ==
  {t \in stored : \A i \in 1..Len(filter) :
     (fieldIndex + i) \in DOMAIN t /\ t[fieldIndex + i] = filter[i]}

\* C13: getFilteredPolicy(fieldIndex, v_0..v_k) returns exactly the stored
\* policy rules t with t[fieldIndex + i] = v_i for every i, and no grouping
\* rule; getFilteredGroupingPolicy does the same over the grouping rules.
C13_FilteredReadExact ==
  /\ (call.op = "getFilteredPolicy" /\ ~Threw(call)) =>
       /\ call.ret.model = Selected(policies, call.args[1], call.args[2])
       /\ call.ret.model \cap groupings = {}
  /\ (call.op = "getFilteredGroupingPolicy" /\ ~Threw(call)) =>
       /\ call.ret.model = Selected(groupings, call.args[1], call.args[2])
       /\ call.ret.model \cap policies = {}

\* C13 witness: getFilteredPolicy(1, "read")-like: a read on two fields
\* from index 1 on has returned some stored policy rules and left out
\* others, with grouping rules stored.
C13_Witness ==
  /\ call.op = "getFilteredPolicy"
  /\ ~Threw(call)
  /\ call.args[1] = 1
  /\ Len(call.args[2]) = 2
  /\ call.ret.model # {}
  /\ call.ret.model # policies
  /\ groupings # {}

\* The fields a rule of the method's kind has.
FieldsOf(op) == IF op = "getFilteredPolicy" THEN 4 ELSE 2

\* C15: a filtered read whose start index plus number of values goes
\* beyond the fields of its kind of rule fails, and issues no adapter call.
C15_OutOfRangeFailsFast ==
  ( /\ call.op \in {"getFilteredPolicy", "getFilteredGroupingPolicy"}
    /\ call.args[1] + Len(call.args[2]) > FieldsOf(call.op) )
  => /\ Threw(call)
     /\ Issued(call, "adapter.loadFilteredPolicy") = {}

\* The failed write calls of an invocation: to the adapter, the role manager
\* or the metadata storage.
FailedWrites(cl) == {i \in Writes(cl) : ~cl.events[i].ok}

\* C14: when a write to the adapter, the metadata storage or the role graph
\* fails inside a method that owns its transaction, the method rolls the
\* transaction back once, throws the error of the failed call, also when
\* the rollback itself fails, and does not issue the failed call again.
C14_SameErrorRethrown ==
  (Returned(call) /\ ~call.ext) =>
    \A i \in FailedWrites(call) :
      /\ Cardinality(Issued(call, "trx.rollback")) = 1
      /\ \A j \in Issued(call, "trx.rollback") : j > i
      /\ call.err = Err(call.events[i].e, call.events[i].a)
      /\ \A j \in Issued(call, call.events[i].e) : j <= i

\* The role updateGroupingPolicies looks up: that of the first old rule.
OldRoleName(old) == IF Len(old) = 0 THEN Undefined ELSE old[1][2]

\* No metadata record is stored for the role.
WithoutMetadata(meta, roleName) ==
  roleName \notin DOMAIN meta \/ meta[roleName] = NoMeta

\* C16: updateGroupingPolicies for an old role that has no metadata record
\* issues its one rollback and no commit, leaves grouping rules, links and
\* metadata as they were and emits nothing, and fails with the not-found
\* error (when the rollback goes through); the lookup precedes every removal
\* and add of the method.
C16_UpdateOfUnknownRoleFails ==
  call.op = "updateGroupingPolicies" =>
    /\ \A i \in Writes(call) : \E j \in Issued(call, "findRoleMetadata") :
         j < i /\ call.events[j].by = "updateGroupingPolicies"
    /\ ( /\ WithoutMetadata(call.before.meta, OldRoleName(call.old))
         /\ Done(call, "findRoleMetadata") # {} )
       => /\ Cardinality(Issued(call, "trx.rollback")) = 1
          /\ Done(call, "trx.rollback") # {} =>
               call.err = NotFound(OldRoleName(call.old))
          /\ Issued(call, "trx.commit") = {}
          /\ Writes(call) = {}
          /\ Issued(call, "roleAdded") = {}
          /\ StoresAsBefore(call)

\* C16 witness: an update of stored rules of a role without metadata has
\* thrown the not-found error.
C16_Witness ==
  /\ call.op = "updateGroupingPolicies"
  /\ Len(call.old) > 0 /\ Len(call.new) > 0
  /\ Rules(call.old) \subseteq groupings
  /\ Done(call, "trx.rollback") # {}
  /\ call.err = NotFound(OldRoleName(call.old))

\* The writes of an invocation by what they write to.
TupleWrites(cl) ==
  {i \in DOMAIN cl.events :
     cl.events[i].e \in {"adapter.addPolicy", "adapter.removePolicy"}}

EdgeWrites(cl) ==
  {i \in DOMAIN cl.events :
     cl.events[i].e \in {"roleManager.addLink", "roleManager.deleteLink"}}

MetadataWrites(cl) ==
  {i \in DOMAIN cl.events :
     cl.events[i].e \in {"createRoleMetadata", "updateRoleMetadata",
                          "removeRoleMetadata"}}

AddsGroupings(cl) == cl.op \in {"addGroupingPolicy", "addGroupingPolicies"}

RemovesGroupings(cl) ==
  cl.op \in {"removeGroupingPolicy", "removeGroupingPolicies"}

\* A grouping mutation that owns its transaction.
OwnedGroupingMutation(cl) ==
  (AddsGroupings(cl) \/ RemovesGroupings(cl)) /\ ~cl.ext

\* Every link write comes after the write of its grouping rule.
TupleBeforeEdge(cl) ==
  \A j \in EdgeWrites(cl) : \E i \in TupleWrites(cl) :
    i < j /\ cl.events[i].a = <<"g">> \o cl.events[j].a

\* C17 as stated: in a grouping mutation that owns its transaction the
\* writes are issued in the order grouping-rule write, link registration or
\* deletion, metadata write.
C17_TupleEdgeMetadataOrder ==
  OwnedGroupingMutation(call) =>
    /\ TupleBeforeEdge(call)
    /\ \A m \in MetadataWrites(call) :
         \A i \in TupleWrites(call) \cup EdgeWrites(call) : i < m

\* C17 amended: each rule is written before its link is registered or
\* deleted; a removing method writes the metadata after every rule and link,
\* an adding method writes the metadata before every rule and link.
C17_MetadataFirstWhenAdding ==
  OwnedGroupingMutation(call) =>
    /\ TupleBeforeEdge(call)
    /\ RemovesGroupings(call) =>
         \A m \in MetadataWrites(call) :
           \A i \in TupleWrites(call) \cup EdgeWrites(call) : i < m
    /\ AddsGroupings(call) =>
         \A m \in MetadataWrites(call) :
           \A i \in TupleWrites(call) \cup EdgeWrites(call) : m < i

\* C17 witness: an addGroupingPolicy that owns its transaction has written
\* metadata, rule and link and committed.
C17_Witness ==
  /\ call.op = "addGroupingPolicy"
  /\ ~call.ext
  /\ ~Threw(call)
  /\ MetadataWrites(call) # {}
  /\ TupleWrites(call) # {}
  /\ EdgeWrites(call) # {}
  /\ Done(call, "trx.commit") # {}

\* The link write of the invocation failed.
EdgeWriteFailed(cl) == \E i \in EdgeWrites(cl) : ~cl.events[i].ok

\* C18: a grouping mutation that owns its transaction is atomic over the
\* grouping rules and the metadata: when a step fails, here the link write
\* that follows the rule write, the stored grouping rules and the metadata
\* records are what they were before the call.
C18_GroupingMutationAtomic ==
  ( /\ OwnedGroupingMutation(call) \/ call.op = "updateGroupingPolicies"
    /\ ~call.ext
    /\ EdgeWriteFailed(call) )
  => /\ groupings = call.before.g
     /\ metadata = call.before.meta

\* The metadata writes a frame of the invocation issued.
MetadataWritesBy(cl, name) ==
  {i \in MetadataWrites(cl) : cl.events[i].by = name}

\* C19: during updateGroupingPolicies the metadata record of the replaced
\* role is never deleted: the removal phase issues no metadata write, and
\* the add phase updates that record instead of creating a new one.  Read
\* on updates of stored rules whose new metadata names the role of the new
\* rules.
C19_ReplacedRoleMetadataKept ==
  ( /\ call.op = "updateGroupingPolicies"
    /\ ~Threw(call)
    /\ Rules(call.old) \subseteq call.before.g
    /\ RolesOf(call.new) = {call.md.roleEntityRef} )
  => /\ \A i \in Issued(call, "removeRoleMetadata") :
          call.events[i].a # <<OldRoleName(call.old)>>
     /\ MetadataWritesBy(call, "removeGroupingPolicies") = {}
     /\ \E i \in Done(call, "updateRoleMetadata") :
          call.events[i].a = <<OldRoleName(call.old)>>
     /\ Issued(call, "createRoleMetadata") = {}

\* No invocation is under way.
Quiet == \A i \in DOMAIN tasks : tasks[i].st # "run"

\* C20: the role manager's links mirror the stored grouping rules: after
\* any sequence of grouping mutations, failed and rolled back ones included,
\* the role manager links member to role exactly when the grouping rule
\* [member, role] is stored.
C20_LinksMirrorGroupings ==
  Quiet =>
    \A member \in {Alice, Bob}, role \in MetaRefs :
      (<<member, role>> \in links) <=> (<<member, role>> \in groupings)

\* The old set of an update is empty or its rules name more than one role.
EmptyOrMixed(old) == Len(old) = 0 \/ Cardinality(RolesOf(old)) > 1

\* C23: updateGroupingPolicies with an old set that is empty or names more
\* than one role is rejected with an error before any grouping rule, link or
\* metadata record is changed.
C23_EmptyOrMixedOldRejected ==
  (call.op = "updateGroupingPolicies" /\ EmptyOrMixed(call.old))
  => /\ Threw(call)
     /\ Writes(call) = {}
     /\ StoresAsBefore(call)

Adding(t) == t.op \in {"addGroupingPolicy", "addGroupingPolicies"}

\* Two adding calls name the same role, which had no metadata record when
\* either was called; both have completed.
AddedSameNewRole(t, u) ==
  /\ Adding(t) /\ Adding(u)
  /\ t.md.roleEntityRef = u.md.roleEntityRef
  /\ t.before.meta[t.md.roleEntityRef] = NoMeta
  /\ u.before.meta[u.md.roleEntityRef] = NoMeta
  /\ Returned(t) /\ Returned(u)

\* C21: under any interleaving of two concurrent addGroupingPolicy or
\* addGroupingPolicies calls for the same previously unknown role, one
\* metadata record is created for the role and one 'roleAdded' is emitted.
C21_OneRecordOneNotification ==
  \A i, j \in DOMAIN tasks :
    (i < j /\ AddedSameNewRole(tasks[i], tasks[j])) =>
      /\ Cardinality(Done(tasks[i], "createRoleMetadata"))
           + Cardinality(Done(tasks[j], "createRoleMetadata")) = 1
      /\ Cardinality(Done(tasks[i], "roleAdded"))
           + Cardinality(Done(tasks[j], "roleAdded")) = 1

\* removeGroupingPolicy t removed the last rule of a role other than the
\* administrative one while addGroupingPolicy u added another rule of that
\* role; both have returned.
RemovedLastWhileAdding(t, u) ==
  /\ t.op = "removeGroupingPolicy" /\ u.op = "addGroupingPolicy"
  /\ t.old[1][2] = u.new[1][2]
  /\ t.old[1] # u.new[1]
  /\ t.old[1][2] # ADMIN_ROLE_NAME
  /\ {r \in t.before.g : r[2] = t.old[1][2]} = {t.old[1]}
  /\ Returned(t) /\ ~Threw(t)
  /\ Returned(u) /\ ~Threw(u)

\* C22: under any interleaving of a removeGroupingPolicy that removes the
\* last rule of a role with an addGroupingPolicy that adds another rule of
\* the same role, once both have returned the role has a metadata record if
\* and only if a grouping rule of the role is stored.
C22_RecordIffRuleAfterRace ==
  \A i, j \in DOMAIN tasks :
    RemovedLastWhileAdding(tasks[i], tasks[j]) =>
      LET role == tasks[i].old[1][2]
      IN (metadata[role] # NoMeta) <=> (\E r \in groupings : r[2] = role)

====
